---- MODULE Spec2Model ----
(***************************************************************************)
(* Model of the DatePicker component (src/components/DatePicker.tsx):      *)
(* the calendar grid, the min/max constraint, and the selection state      *)
(* mutated by the handlers of the picker.                                  *)
(*                                                                         *)
(* A JavaScript Date is its time value: an integer count of clock ticks    *)
(* since 1970-01-01T00:00 local time, TicksPerDay ticks to the day (the    *)
(* real clock has 86400000).  The local time zone is taken to have a       *)
(* constant offset, so local midnight is a multiple of TicksPerDay.        *)
(***************************************************************************)
EXTENDS Integers, Sequences, FiniteSets, TLC

VARIABLES
    isModalVisible,   \* useState(false), DatePicker.tsx:294
    selectedDate,     \* useState(value || new Date()), DatePicker.tsx:295
    currentMonth,     \* useState(value || new Date()), DatePicker.tsx:296
    value,            \* prop: the controlled value, or NoDate
    minDate,          \* prop: lower bound, or NoDate
    maxDate,          \* prop: upper bound, or NoDate
    disabled,         \* prop
    now,              \* the clock read by new Date()
    calls,            \* callbacks invoked by the latest handler, in order
    last,             \* the latest handler and its argument
    navSteps,         \* next-month less previous-month steps of the calendar alone
    format,           \* prop: the display format, DatePicker.tsx:109
    customFormat,     \* prop: the custom pattern, or NoPattern, DatePicker.tsx:115
    toastMounted,     \* whether the Toast is mounted
    toastVisible,     \* Toast prop visible, part_002:65
    toastDuration,    \* Toast prop duration, in ticks, part_002:57
    toastTimer,       \* ticks left on the pending setTimeout, or NoTimer
    toastShownFor,    \* ticks since the Toast was last shown
    toastDismissals,  \* calls of onDismiss by the timer since it was shown
    toastLast,        \* the latest step of the Toast
    alertMounted,     \* whether the Alert is mounted
    alertVisible,     \* Alert prop visible
    alertType,        \* Alert prop type, Alert.tsx:245
    alertAutoDismiss, \* Alert prop autoDismiss, in ticks, or NoAutoDismiss
    alertTimer,       \* ticks left on the pending setTimeout, or NoTimer
    alertFired,       \* calls of handleDismiss by the timer since it was shown
    alertLast,        \* the latest step of the Alert
    dataLength,       \* Carousel prop data, its length
    infinite,         \* Carousel prop infinite
    autoPlay,         \* Carousel prop autoPlay
    currentIndex,     \* Carousel: useState(initialIndex), part_001:137
    slideCalls,       \* Carousel: the indexes passed to onSlideChange by the latest step
    carouselLast,     \* Carousel: the latest step and its argument
    queue,            \* ToastQueue.queue, part_002:250
    showToastFn,      \* ToastQueue.showToastFn, or NoFn, part_002:253
    queueAdded,       \* ToastQueue: the toasts added, in order
    queueShown,       \* ToastQueue: the toasts handed to showToastFn, in order
    toasts,           \* ToastProvider: useState([]), part_002:220
    dateNow,          \* ToastProvider: the clock read by Date.now(), in ms
    toastsShown,      \* ToastProvider: the number of showToast calls
    providerLast,     \* ToastProvider: the latest step and the toast it is about
    items,            \* Tabs prop items: the disabled flag of each tab, by id
    initialTab,       \* Tabs prop initialTab, or NoTab
    activeTab,        \* Tabs: useState(initialTab || items[0]?.id), Tabs.tsx:118
    tabCalls,         \* Tabs: the ids passed to onTabChange by the latest step
    tabsLast          \* Tabs: the latest step and its argument

\* The props of the picker.
props == <<value, minDate, maxDate, disabled, format, customFormat>>

\* The Toast component.
toastVars == <<toastMounted, toastVisible, toastDuration, toastTimer,
               toastShownFor, toastDismissals, toastLast>>

\* The Alert component.
alertVars == <<alertMounted, alertVisible, alertType, alertAutoDismiss,
               alertTimer, alertFired, alertLast>>

\* The Carousel component.
carouselVars == <<dataLength, infinite, autoPlay, currentIndex, slideCalls,
                  carouselLast>>

\* The ToastQueue object.
queueVars == <<queue, showToastFn, queueAdded, queueShown>>

\* The ToastProvider component.
providerVars == <<toasts, dateNow, toastsShown, providerLast>>

\* The Tabs component.
tabsVars == <<items, initialTab, activeTab, tabCalls, tabsLast>>

\* The components other than the picker.
components == <<toastVars, alertVars, carouselVars, queueVars, providerVars,
                tabsVars>>

\* What no handler of the picker changes: its props and the other components.
rest == <<props, components>>

\* The state of the picker.
pickerVars == <<isModalVisible, selectedDate, currentMonth, now, calls, last,
                navSteps>>

\* What no step of each other component changes.
toastFrame == <<pickerVars, props, alertVars, carouselVars, queueVars,
                providerVars, tabsVars>>

alertFrame == <<pickerVars, props, toastVars, carouselVars, queueVars,
                providerVars, tabsVars>>

carouselFrame == <<pickerVars, props, toastVars, alertVars, queueVars,
                   providerVars, tabsVars>>

queueFrame == <<pickerVars, props, toastVars, alertVars, carouselVars,
                providerVars, tabsVars>>

providerFrame == <<pickerVars, props, toastVars, alertVars, carouselVars,
                   queueVars, tabsVars>>

tabsFrame == <<pickerVars, props, toastVars, alertVars, carouselVars,
               queueVars, providerVars>>

vars == <<pickerVars, rest>>

(***************************************************************************)
(* Bounds of the model.                                                    *)
(***************************************************************************)
TicksPerDay == 2
FirstYear == 2023
YearSpan == 1
MonthSpan == 1
ClockTicks == 1

\* An absent Date (undefined prop).
NoDate == -1

(***************************************************************************)
(* Date arithmetic, as ECMAScript defines it for the Date methods the      *)
(* component calls.                                                        *)
(***************************************************************************)
Day(t) == t \div TicksPerDay

TimeWithinDay(t) == t % TicksPerDay

InLeapYear(y) == (y % 4 = 0 /\ y % 100 # 0) \/ y % 400 = 0

\* Day number of January 1st of year y.
DayFromYear(y) ==
    365 * (y - 1970) + ((y - 1969) \div 4) - ((y - 1901) \div 100)
        + ((y - 1601) \div 400)

\* Day within the year on which month m (0..11) starts; m = 12 gives the
\* length of the year.
MonthStart(leap, m) ==
    IF m = 0 THEN 0
    ELSE IF m = 1 THEN 31
    ELSE <<59, 90, 120, 151, 181, 212, 243, 273, 304, 334, 365>>[m - 1]
         + (IF leap THEN 1 ELSE 0)

\* YearFromTime, on day numbers: the year y with
\* DayFromYear(y) <= d < DayFromYear(y + 1).
YearFromDay(d) ==
    CHOOSE y \in (1970 + (IF d >= 0 THEN d \div 366 ELSE d \div 365) - 1)
                   ..(1970 + (IF d >= 0 THEN d \div 365 ELSE d \div 366) + 1) :
        DayFromYear(y) <= d /\ d < DayFromYear(y + 1)

\* MonthFromTime, on day numbers: 0..11.
MonthFromDay(d) ==
    LET y == YearFromDay(d)
    IN  CHOOSE m \in 0..11 :
            /\ MonthStart(InLeapYear(y), m) <= d - DayFromYear(y)
            /\ d - DayFromYear(y) < MonthStart(InLeapYear(y), m + 1)

\* DateFromTime, on day numbers: 1..31.
DateFromDay(d) ==
    LET y == YearFromDay(d)
    IN  d - DayFromYear(y) - MonthStart(InLeapYear(y), MonthFromDay(d)) + 1

\* MakeDay(year, month, date): month and date may lie outside their ranges
\* and carry into the year and the month.
MakeDay(year, month, date) ==
    LET ym == year + (month \div 12)
        mn == month % 12
    IN  DayFromYear(ym) + MonthStart(InLeapYear(ym), mn) + date - 1

MakeDate(day, time) == day * TicksPerDay + time

\* The days whose dates are given to formatDate: the 5th of March 2024, a day
\* and a month of two digits, and years of three, five and one digits.
FormatDays ==
    { MakeDay(2024, 2, 5), MakeDay(2023, 11, 31), MakeDay(999, 0, 9),
      MakeDay(10000, 9, 10), MakeDay(5, 5, 15) }

\* The calendar fields of every day number the model can reach, computed once.
CivilDays ==
    DayFromYear(FirstYear - 2)..DayFromYear(FirstYear + YearSpan + 3)
        \cup FormatDays

Civil ==
    [d \in CivilDays |->
        [year |-> YearFromDay(d), month |-> MonthFromDay(d),
         date |-> DateFromDay(d)]]

\* Date.prototype.getFullYear
getFullYear(t) == Civil[Day(t)].year

\* Date.prototype.getMonth, 0..11
getMonth(t) == Civil[Day(t)].month

\* Date.prototype.getDate, 1..31
getDate(t) == Civil[Day(t)].date

\* Date.prototype.getDay, Sunday = 0 (1970-01-01 was a Thursday)
getDay(t) == (Day(t) + 4) % 7

\* new Date(year, month, date): local midnight; a year of 0..99 means 1900 + year.
NewDate(year, month, date) ==
    LET yr == IF 0 <= year /\ year <= 99 THEN 1900 + year ELSE year
    IN  MakeDate(MakeDay(yr, month, date), 0)

\* Date.prototype.setDate(dt): the new time value.
setDate(t, dt) ==
    MakeDate(MakeDay(getFullYear(t), getMonth(t), dt), TimeWithinDay(t))

(***************************************************************************)
(* The inputs of the model: the clock, the props.                          *)
(***************************************************************************)
\* The clock starts one tick into January 31st of the year after FirstYear
\* and runs for ClockTicks ticks.
ClockStart == NewDate(FirstYear + 1, 0, 31) + 1

ClockEnd == ClockStart + ClockTicks

\* The value prop: absent, or New Year's Eve of FirstYear.
ValueChoices == {NoDate, NewDate(FirstYear, 11, 31)}

\* The minDate and maxDate props: both absent, or January 28th and January
\* 31st of the year after FirstYear, each one tick into its day.
BoundsChoices ==
    { <<NoDate, NoDate>>,
      <<NewDate(FirstYear + 1, 0, 28) + 1, NewDate(FirstYear + 1, 0, 31) + 1>> }

\* Months are numbered year * 12 + month.
MonthIndex(t) == getFullYear(t) * 12 + getMonth(t)

\* The picker is explored over the months from December of FirstYear on.
FirstMonth == FirstYear * 12 + 11

LastMonth == FirstMonth + MonthSpan

\* The grid is explored over the years FirstYear .. FirstYear + YearSpan,
\* opened on the 1st and on the 28th to the last day of each month.
GridDates ==
    { MakeDate(d, 0) :
        d \in { e \in DayFromYear(FirstYear)..(DayFromYear(FirstYear + YearSpan + 1) - 1) :
                  DateFromDay(e) = 1 \/ DateFromDay(e) >= 28 } }

Call(cb, arg) == [cb |-> cb, arg |-> arg]

Did(op, date) == [op |-> op, date |-> date]

\* The latest step of a component other than the picker, and its argument.
Step(op, arg) == [op |-> op, arg |-> arg]

(***************************************************************************)
(* The calendar grid.                                                      *)
(***************************************************************************)
GridSize == 42

\* pushDays with days.push(current) in place of days.push(new Date(current)):
\* every entry is the one Date object, which ends at the loop's last value.
RECURSIVE pushDaysAliased(_, _, _)
pushDaysAliased(days, current, n) ==
    IF n = 0 THEN [i \in 1..Len(days) |-> current]
    ELSE pushDaysAliased(Append(days, current),
                         setDate(current, getDate(current) + 1),
                         n - 1)

\* The loop of generateCalendarDays: push a copy of current, then
\* current.setDate(current.getDate() + 1), n times.
RECURSIVE pushDays(_, _, _)
pushDays(days, current, n) ==
    IF n = 0 THEN days
    ELSE pushDays(Append(days, current),
                  setDate(current, getDate(current) + 1),
                  n - 1)

\* CalendarDays with the week starting on Monday.
CalendarDaysFromMonday(cm) ==
    LET year == getFullYear(cm)
        month == getMonth(cm)
        firstDay == NewDate(year, month, 1)
        startDate ==
            setDate(firstDay, getDate(firstDay) - ((getDay(firstDay) + 6) % 7))
    IN  pushDays(<<>>, startDate, GridSize)

\* The grid for display date cm: GridSize days from the Sunday on or before
\* the 1st of cm's month.
CalendarDays(cm) ==
    LET year == getFullYear(cm)
        month == getMonth(cm)
        firstDay == NewDate(year, month, 1)
        startDate == setDate(firstDay, getDate(firstDay) - getDay(firstDay))
    IN  pushDays(<<>>, startDate, GridSize)

generateCalendarDays == CalendarDays(currentMonth)

\* isCurrentMonth comparing with the month of today.
isCurrentMonthOfToday(day) == getMonth(day) = getMonth(now)

\* Whether a grid day is drawn as a day of the displayed month.
isCurrentMonth(day) == getMonth(day) = getMonth(currentMonth)

(***************************************************************************)
(* The min/max constraint: Date objects compare by their time values.      *)
(***************************************************************************)
isDateSelectable(date) ==
    IF minDate # NoDate /\ date < minDate THEN FALSE
    ELSE IF maxDate # NoDate /\ date > maxDate THEN FALSE
    ELSE TRUE

\* The cell drawn for a grid day.
renderDay(day) ==
    [day |-> day,
     isCurrentMonth |-> isCurrentMonth(day),
     isSelectable |-> isDateSelectable(day)]

\* The cells of the grid as rendered, in grid order.
renderCalendarDays ==
    CHOOSE cells \in { [i \in 1..GridSize |-> renderDay(days[i])] :
                          days \in {generateCalendarDays} } : TRUE

(***************************************************************************)
(* Strings are the sequences of their characters.                          *)
(***************************************************************************)
Digit(n) == <<"0", "1", "2", "3", "4", "5", "6", "7", "8", "9">>[n + 1]

\* Number.prototype.toString of a non-negative integer: decimal, unpadded.
RECURSIVE toString(_)
toString(n) ==
    IF n < 10 THEN <<Digit(n)>>
    ELSE Append(toString(n \div 10), Digit(n % 10))

\* padStart that pads at the end, as padEnd does.
RECURSIVE padStartAtEnd(_, _, _)
padStartAtEnd(s, targetLength, padString) ==
    IF Len(s) >= targetLength THEN s
    ELSE padStartAtEnd(s \o padString, targetLength, padString)

\* String.prototype.padStart, for a padString of one character.
RECURSIVE padStart(_, _, _)
padStart(s, targetLength, padString) ==
    IF Len(s) >= targetLength THEN s
    ELSE padStart(padString \o s, targetLength, padString)

\* slice counting a negative start from the start of the string.
sliceFromStart(s, start) ==
    LET n == IF start < 0 THEN -start ELSE start
    IN  SubSeq(s, 1, IF n > Len(s) THEN Len(s) ELSE n)

\* String.prototype.slice(start): a negative start counts from the end.
slice(s, start) ==
    LET from == IF start < 0
                THEN (IF Len(s) + start < 0 THEN 0 ELSE Len(s) + start)
                ELSE (IF start > Len(s) THEN Len(s) ELSE start)
    IN  SubSeq(s, from + 1, Len(s))

\* String.prototype.replace(/token/g, by) for a literal token: the matches
\* are found left to right and do not overlap; by is not scanned again.
RECURSIVE replace(_, _, _)
replace(s, token, by) ==
    IF Len(s) < Len(token) THEN s
    ELSE IF SubSeq(s, 1, Len(token)) = token
         THEN by \o replace(SubSeq(s, Len(token) + 1, Len(s)), token, by)
         ELSE <<s[1]>> \o replace(Tail(s), token, by)

(***************************************************************************)
(* The text of the input: formatDate and its helpers.                      *)
(***************************************************************************)
\* An absent customFormat (undefined prop).
NoPattern == <<"undefined">>

\* The values of type DateFormat.
Formats ==
    {"DD/MM/YYYY", "MM/DD/YYYY", "YYYY-MM-DD", "DD MMM YYYY", "MMM DD, YYYY",
     "custom"}

\* The characters of the custom patterns explored, and their longest length.
PatternChars == {"Y", "M", "D", "/"}

MaxPatternLen == 4

\* The customFormat prop: absent, any string of PatternChars up to
\* MaxPatternLen characters (the empty string among them), or "D/M/YY".
PatternChoices ==
    UNION { [1..n -> PatternChars] : n \in 0..MaxPatternLen }
        \cup {NoPattern, <<"D", "/", "M", "/", "Y", "Y">>}

\* The value prop when the text of the input is explored.
FormatDates == { MakeDate(d, 0) : d \in FormatDays }

placeholder == <<"S", "e", "l", "e", "c", "t", " ", "d", "a", "t", "e">>

getMonthName(monthIndex, short) ==
    IF short
    THEN << <<"J", "a", "n">>,
         <<"F", "e", "b">>,
         <<"M", "a", "r">>,
         <<"A", "p", "r">>,
         <<"M", "a", "y">>,
         <<"J", "u", "n">>,
         <<"J", "u", "l">>,
         <<"A", "u", "g">>,
         <<"S", "e", "p">>,
         <<"O", "c", "t">>,
         <<"N", "o", "v">>,
         <<"D", "e", "c">> >>[monthIndex + 1]
    ELSE << <<"J", "a", "n", "u", "a", "r", "y">>,
         <<"F", "e", "b", "r", "u", "a", "r", "y">>,
         <<"M", "a", "r", "c", "h">>,
         <<"A", "p", "r", "i", "l">>,
         <<"M", "a", "y">>,
         <<"J", "u", "n", "e">>,
         <<"J", "u", "l", "y">>,
         <<"A", "u", "g", "u", "s", "t">>,
         <<"S", "e", "p", "t", "e", "m", "b", "e", "r">>,
         <<"O", "c", "t", "o", "b", "e", "r">>,
         <<"N", "o", "v", "e", "m", "b", "e", "r">>,
         <<"D", "e", "c", "e", "m", "b", "e", "r">> >>[monthIndex + 1]

\* formatCustomDate replacing the short tokens before the long ones.
formatCustomDateShortFirst(date, formatString) ==
    LET day == getDate(date)
        month == getMonth(date) + 1
        year == getFullYear(date)
        s1 == replace(formatString, <<"Y", "Y">>, slice(toString(year), -2))
        s2 == replace(s1, <<"Y", "Y", "Y", "Y">>, toString(year))
        s3 == replace(s2, <<"M">>, toString(month))
        s4 == replace(s3, <<"M", "M">>, padStart(toString(month), 2, <<"0">>))
        s5 == replace(s4, <<"D">>, toString(day))
    IN  replace(s5, <<"D", "D">>, padStart(toString(day), 2, <<"0">>))

\* Six global replacements, each over the result of the one before.
formatCustomDate(date, formatString) ==
    LET day == getDate(date)
        month == getMonth(date) + 1
        year == getFullYear(date)
        s1 == replace(formatString, <<"Y", "Y", "Y", "Y">>, toString(year))
        s2 == replace(s1, <<"Y", "Y">>, slice(toString(year), -2))
        s3 == replace(s2, <<"M", "M">>, padStart(toString(month), 2, <<"0">>))
        s4 == replace(s3, <<"M">>, toString(month))
        s5 == replace(s4, <<"D", "D">>, padStart(toString(day), 2, <<"0">>))
    IN  replace(s5, <<"D">>, toString(day))

\* Date.prototype.toLocaleDateString: the text depends on the locale of the
\* host; that of en-US is taken, month/day/year without padding.
toLocaleDateString(date) ==
    toString(getMonth(date) + 1) \o <<"/">> \o toString(getDate(date))
        \o <<"/">> \o toString(getFullYear(date))

\* formatDate testing customFormat !== undefined in place of its truthiness.
formatDateIfDefined(date) ==
    IF date = NoDate THEN <<>>
    ELSE LET day == padStart(toString(getDate(date)), 2, <<"0">>)
             month == padStart(toString(getMonth(date) + 1), 2, <<"0">>)
             year == toString(getFullYear(date))
             monthName == getMonthName(getMonth(date), TRUE)
         IN  CASE format = "DD/MM/YYYY" ->
                      day \o <<"/">> \o month \o <<"/">> \o year
               [] format = "MM/DD/YYYY" ->
                      month \o <<"/">> \o day \o <<"/">> \o year
               [] format = "YYYY-MM-DD" ->
                      year \o <<"-">> \o month \o <<"-">> \o day
               [] format = "DD MMM YYYY" ->
                      day \o <<" ">> \o monthName \o <<" ">> \o year
               [] format = "MMM DD, YYYY" ->
                      monthName \o <<" ">> \o day \o <<",", " ">> \o year
               [] format = "custom" ->
                      IF customFormat # NoPattern
                      THEN formatCustomDate(date, customFormat)
                      ELSE toLocaleDateString(date)
               [] OTHER -> toLocaleDateString(date)

\* The text for a date under the format and customFormat props; an empty
\* customFormat is falsy, as an absent one is.
formatDate(date) ==
    IF date = NoDate THEN <<>>
    ELSE LET day == padStart(toString(getDate(date)), 2, <<"0">>)
             month == padStart(toString(getMonth(date) + 1), 2, <<"0">>)
             year == toString(getFullYear(date))
             monthName == getMonthName(getMonth(date), TRUE)
         IN  CASE format = "DD/MM/YYYY" ->
                      day \o <<"/">> \o month \o <<"/">> \o year
               [] format = "MM/DD/YYYY" ->
                      month \o <<"/">> \o day \o <<"/">> \o year
               [] format = "YYYY-MM-DD" ->
                      year \o <<"-">> \o month \o <<"-">> \o day
               [] format = "DD MMM YYYY" ->
                      day \o <<" ">> \o monthName \o <<" ">> \o year
               [] format = "MMM DD, YYYY" ->
                      monthName \o <<" ">> \o day \o <<",", " ">> \o year
               [] format = "custom" ->
                      IF customFormat # NoPattern /\ customFormat # <<>>
                      THEN formatCustomDate(date, customFormat)
                      ELSE toLocaleDateString(date)
               [] OTHER -> toLocaleDateString(date)

\* The text shown in the input.
inputText == IF value # NoDate THEN formatDate(value) ELSE placeholder

(***************************************************************************)
(* The Toast component (src/unnamed/part_002): its auto-dismiss timer.     *)
(* Time is counted in ticks; a timer that is due fires before the next     *)
(* tick.                                                                   *)
(***************************************************************************)
\* No setTimeout is pending.
NoTimer == -1

\* The longest duration prop explored, and the longest time a Toast is
\* followed after it is shown.
MaxDuration == 2

MaxShown == 3

\* The showCloseButton prop, at its default.
showCloseButton == TRUE

\* No Toast is mounted.
ToastAbsent ==
    /\ toastMounted = FALSE
    /\ toastVisible = FALSE
    /\ toastDuration = 0
    /\ toastTimer = NoTimer
    /\ toastShownFor = 0
    /\ toastDismissals = 0
    /\ toastLast = "none"

\* An absent autoDismiss (undefined prop).
NoAutoDismiss == -1

\* No Alert is mounted.
AlertAbsent ==
    /\ alertMounted = FALSE
    /\ alertVisible = FALSE
    /\ alertType = "modal"
    /\ alertAutoDismiss = NoAutoDismiss
    /\ alertTimer = NoTimer
    /\ alertFired = 0
    /\ alertLast = "none"

\* No Carousel is mounted.
CarouselAbsent ==
    /\ dataLength = 0
    /\ infinite = TRUE
    /\ autoPlay = FALSE
    /\ currentIndex = 0
    /\ slideCalls = <<>>
    /\ carouselLast = Step("none", 0)

\* No showToastFn is registered (undefined field).
NoFn == "undefined"

\* The ToastQueue is not used.
QueueAbsent ==
    /\ queue = <<>>
    /\ showToastFn = NoFn
    /\ queueAdded = <<>>
    /\ queueShown = <<>>

\* No ToastProvider is mounted.
ProviderAbsent ==
    /\ toasts = <<>>
    /\ dateNow = 0
    /\ toastsShown = 0
    /\ providerLast = Step("none", 0)

\* An absent initialTab (undefined prop); the ids of the tabs are 1, 2, ...
NoTab == 0

\* No Tabs is mounted.
TabsAbsent ==
    /\ items = <<>>
    /\ initialTab = NoTab
    /\ activeTab = NoTab
    /\ tabCalls = <<>>
    /\ tabsLast = Step("none", NoTab)

\* The picker alone.
NoComponents ==
    /\ ToastAbsent
    /\ AlertAbsent
    /\ CarouselAbsent
    /\ QueueAbsent
    /\ ProviderAbsent
    /\ TabsAbsent

\* A closed picker without a value, beside the component explored.
PickerIdle ==
    /\ isModalVisible = FALSE
    /\ value = NoDate
    /\ now = ClockStart
    /\ selectedDate = now
    /\ currentMonth = now
    /\ minDate = NoDate
    /\ maxDate = NoDate
    /\ disabled = FALSE
    /\ format = "DD/MM/YYYY"
    /\ customFormat = NoPattern
    /\ calls = <<>>
    /\ last = Did("init", NoDate)
    /\ navSteps = 0

(***************************************************************************)
(* The handlers.                                                           *)
(***************************************************************************)
\* The first render.  Each useState initialiser evaluates value || new Date()
\* on its own: without a value the clock is read twice, and may have advanced
\* between the two readings.
Init ==
    /\ isModalVisible = FALSE
    /\ value \in ValueChoices
    /\ \E d1 \in ClockStart..ClockEnd : \E d2 \in d1..ClockEnd :
           /\ selectedDate = (IF value # NoDate THEN value ELSE d1)
           /\ currentMonth = (IF value # NoDate THEN value ELSE d2)
           /\ now = (IF value # NoDate THEN ClockStart ELSE d2)
    /\ \E b \in BoundsChoices : minDate = b[1] /\ maxDate = b[2]
    /\ disabled \in BOOLEAN
    /\ format = "DD/MM/YYYY"
    /\ customFormat = NoPattern
    /\ calls = <<>>
    /\ last = Did("init", NoDate)
    /\ navSteps = 0
    /\ NoComponents

\* handleDateSelect without the isDateSelectable guard.
handleDateSelectUnguarded(date) ==
    /\ last' = Did("handleDateSelect", date)
    /\ selectedDate' = date
    /\ isModalVisible' = FALSE
    /\ calls' = <<Call("onChange", date), Call("onClose", NoDate)>>
    /\ UNCHANGED <<currentMonth, rest, now>>

handleDateSelect(date) ==
    /\ last' = Did("handleDateSelect", date)
    /\ IF ~isDateSelectable(date)
       THEN /\ calls' = <<>>
            /\ UNCHANGED <<selectedDate, isModalVisible>>
       ELSE /\ selectedDate' = date
            /\ isModalVisible' = FALSE
            /\ calls' = <<Call("onChange", date), Call("onClose", NoDate)>>
    /\ UNCHANGED <<currentMonth, rest, now>>

\* A day cell of the open calendar is pressed.
PressDay ==
    /\ isModalVisible
    /\ \E cells \in {renderCalendarDays} :
           \E i \in 1..GridSize : handleDateSelect(cells[i].day)
    /\ UNCHANGED navSteps

\* handleToday without setCurrentMonth(today).
handleTodayKeepsMonth ==
    \E today \in now..ClockEnd :
        /\ now' = today
        /\ selectedDate' = today
        /\ isModalVisible' = FALSE
        /\ calls' = <<Call("onChange", today), Call("onClose", NoDate)>>
        /\ last' = Did("handleToday", today)
        /\ UNCHANGED <<currentMonth, rest>>

\* new Date() reads the clock, which may have advanced since the last reading.
handleToday ==
    \E today \in now..ClockEnd :
        /\ now' = today
        /\ selectedDate' = today
        /\ currentMonth' = today
        /\ isModalVisible' = FALSE
        /\ calls' = <<Call("onChange", today), Call("onClose", NoDate)>>
        /\ last' = Did("handleToday", today)
        /\ UNCHANGED rest

\* The Today button of the open calendar is pressed.
PressToday == isModalVisible /\ handleToday /\ UNCHANGED navSteps

\* openModal without the early return on disabled.
openModalWhenDisabled ==
    /\ last' = Did("openModal", NoDate)
    /\ isModalVisible' = TRUE
    /\ calls' = <<Call("onOpen", NoDate)>>
    /\ UNCHANGED <<selectedDate, currentMonth, rest, now>>

openModal ==
    /\ last' = Did("openModal", NoDate)
    /\ IF disabled
       THEN /\ calls' = <<>>
            /\ UNCHANGED isModalVisible
       ELSE /\ isModalVisible' = TRUE
            /\ calls' = <<Call("onOpen", NoDate)>>
    /\ UNCHANGED <<selectedDate, currentMonth, rest, now>>

\* The input is pressed; it lies under the modal while the modal is shown.
PressInput == ~isModalVisible /\ openModal /\ UNCHANGED navSteps

\* navigateMonth keeping the day of the month, as setMonth(getMonth() + delta)
\* does: a day the target month lacks carries into the month after.
navigateMonthKeepsDay(delta) ==
    /\ currentMonth' =
           NewDate(getFullYear(currentMonth), getMonth(currentMonth) + delta,
                   getDate(currentMonth))
    /\ calls' = <<>>
    /\ last' = Did(IF delta < 0 THEN "prevMonth" ELSE "nextMonth", NoDate)
    /\ UNCHANGED <<isModalVisible, selectedDate, rest, now>>

\* navigateMonth that also selects the 1st of the month shown.
navigateMonthSelects(delta) ==
    /\ currentMonth' =
           NewDate(getFullYear(currentMonth), getMonth(currentMonth) + delta, 1)
    /\ selectedDate' = currentMonth'
    /\ calls' = <<Call("onChange", currentMonth')>>
    /\ last' = Did(IF delta < 0 THEN "prevMonth" ELSE "nextMonth", NoDate)
    /\ UNCHANGED <<isModalVisible, rest, now>>

\* navigateMonth without the carry of the month into the year.
navigateMonthWithinYear(delta) ==
    /\ currentMonth' =
           NewDate(getFullYear(currentMonth),
                   (getMonth(currentMonth) + delta) % 12, 1)
    /\ calls' = <<>>
    /\ last' = Did(IF delta < 0 THEN "prevMonth" ELSE "nextMonth", NoDate)
    /\ UNCHANGED <<isModalVisible, selectedDate, rest, now>>

\* The header's previous (delta = -1) and next (delta = 1) buttons.
navigateMonth(delta) ==
    /\ currentMonth' =
           NewDate(getFullYear(currentMonth), getMonth(currentMonth) + delta, 1)
    /\ calls' = <<>>
    /\ last' = Did(IF delta < 0 THEN "prevMonth" ELSE "nextMonth", NoDate)
    /\ UNCHANGED <<isModalVisible, selectedDate, rest, now>>

PrevMonth ==
    /\ isModalVisible
    /\ MonthIndex(currentMonth) - 1 >= FirstMonth
    /\ navigateMonth(-1)
    /\ UNCHANGED navSteps

NextMonth ==
    /\ isModalVisible
    /\ MonthIndex(currentMonth) + 1 <= LastMonth
    /\ navigateMonth(1)
    /\ UNCHANGED navSteps

\* The showClear prop, at its default.
showClear == TRUE

\* Whether the clear control is rendered in the input.
clearAvailable == showClear /\ value # NoDate /\ ~disabled

\* handleClear reads the clock twice: setSelectedDate(new Date()), then
\* onChange(new Date()).
handleClear ==
    \E d1 \in now..ClockEnd : \E d2 \in d1..ClockEnd :
        /\ selectedDate' = d1
        /\ calls' = <<Call("onChange", d2)>>
        /\ now' = d2
        /\ last' = Did("handleClear", d1)
        /\ UNCHANGED <<isModalVisible, currentMonth, rest>>

\* The clear control is pressed; it lies under the modal while the modal is
\* shown.
PressClear ==
    ~isModalVisible /\ clearAvailable /\ handleClear /\ UNCHANGED navSteps

\* A dismissal that reports the date selected, as a confirmation would.
dismissReports ==
    /\ isModalVisible
    /\ isModalVisible' = FALSE
    /\ calls' = <<Call("onChange", selectedDate)>>
    /\ last' = Did("dismiss", NoDate)
    /\ UNCHANGED <<selectedDate, currentMonth, rest, now, navSteps>>

\* The header's close button, Cancel, the backdrop and the back request.
dismiss ==
    /\ isModalVisible
    /\ isModalVisible' = FALSE
    /\ calls' = <<>>
    /\ last' = Did("dismiss", NoDate)
    /\ UNCHANGED <<selectedDate, currentMonth, rest, now, navSteps>>

Next ==
    \/ PressInput
    \/ PressClear
    \/ PressDay
    \/ PressToday
    \/ PrevMonth
    \/ NextMonth
    \/ dismiss

Spec == Init /\ [][Next]_vars

(***************************************************************************)
(* The calendar alone: the picker opened on any date of the explored       *)
(* years, then navigated by month.                                         *)
(***************************************************************************)
InitGrid ==
    /\ isModalVisible = TRUE
    /\ value \in GridDates
    /\ now = ClockStart
    /\ selectedDate = value
    /\ currentMonth = value
    /\ minDate = NoDate
    /\ maxDate = NoDate
    /\ disabled = FALSE
    /\ format = "DD/MM/YYYY"
    /\ customFormat = NoPattern
    /\ calls = <<Call("onOpen", NoDate)>>
    /\ last = Did("openModal", NoDate)
    /\ navSteps = 0
    /\ NoComponents

GridPrevMonth ==
    /\ isModalVisible
    /\ MonthIndex(currentMonth) - 1 >= FirstYear * 12
    /\ navigateMonth(-1)
    /\ navSteps' = navSteps - 1

GridNextMonth ==
    /\ isModalVisible
    /\ MonthIndex(currentMonth) + 1 <= (FirstYear + YearSpan) * 12 + 11
    /\ navigateMonth(1)
    /\ navSteps' = navSteps + 1

NextGrid ==
    \/ GridPrevMonth
    \/ GridNextMonth

SpecGrid == InitGrid /\ [][NextGrid]_vars

(***************************************************************************)
(* The text of the input alone: a closed picker rendered with any of the   *)
(* dates, formats and custom patterns explored, then rendered again by its *)
(* parent with another value or another format.                            *)
(***************************************************************************)
InitFormat ==
    /\ isModalVisible = FALSE
    /\ value \in FormatDates
    /\ now = ClockStart
    /\ selectedDate = value
    /\ currentMonth = value
    /\ minDate = NoDate
    /\ maxDate = NoDate
    /\ disabled = FALSE
    /\ format \in Formats
    /\ customFormat \in PatternChoices
    /\ calls = <<>>
    /\ last = Did("init", NoDate)
    /\ navSteps = 0
    /\ NoComponents

\* The parent passes another value; the state set by useState is kept.
RenderValue ==
    \E v \in FormatDates \ {value} :
        /\ value' = v
        /\ UNCHANGED <<pickerVars, minDate, maxDate, disabled, format,
                       customFormat, components>>

\* The parent passes another format.
RenderFormat ==
    \E f \in Formats \ {format} :
        /\ format' = f
        /\ UNCHANGED <<pickerVars, value, minDate, maxDate, disabled,
                       customFormat, components>>

NextFormat ==
    \/ RenderValue
    \/ RenderFormat

SpecFormat == InitFormat /\ [][NextFormat]_vars

(***************************************************************************)
(* The Toast alone: mounted with any visible and duration, then shown,     *)
(* hidden, rendered again and unmounted by its parent while time passes.   *)
(***************************************************************************)
\* The effect of the Toast, run after its clean-up: the timer it leaves
\* pending.
toastEffect(visible, duration) ==
    IF visible /\ duration > 0 THEN duration ELSE NoTimer

InitToast ==
    /\ isModalVisible = FALSE
    /\ value = NoDate
    /\ now = ClockStart
    /\ selectedDate = now
    /\ currentMonth = now
    /\ minDate = NoDate
    /\ maxDate = NoDate
    /\ disabled = FALSE
    /\ format = "DD/MM/YYYY"
    /\ customFormat = NoPattern
    /\ calls = <<>>
    /\ last = Did("init", NoDate)
    /\ navSteps = 0
    /\ toastMounted = TRUE
    /\ toastVisible \in BOOLEAN
    /\ toastDuration \in 0..MaxDuration
    /\ toastTimer = toastEffect(toastVisible, toastDuration)
    /\ toastShownFor = 0
    /\ toastDismissals = 0
    /\ toastLast = "mount"
    /\ AlertAbsent
    /\ CarouselAbsent
    /\ QueueAbsent
    /\ ProviderAbsent
    /\ TabsAbsent

\* The parent sets visible: the clean-up clears the pending timer, the
\* effect starts one when the Toast is shown with duration > 0.
ToastSetVisible ==
    /\ toastMounted
    /\ toastVisible' = ~toastVisible
    /\ toastTimer' = toastEffect(toastVisible', toastDuration)
    /\ toastShownFor' = 0
    /\ toastDismissals' = 0
    /\ toastLast' = (IF toastVisible' THEN "show" ELSE "hide")
    /\ UNCHANGED <<toastMounted, toastDuration, toastFrame>>

\* The parent renders the visible Toast again with another onDismiss function
\* (or position): a dependency of the effect has changed, so the clean-up
\* clears the pending timer and the effect starts a new one.
ToastRender ==
    /\ toastMounted
    /\ toastVisible
    /\ toastTimer' = toastEffect(toastVisible, toastDuration)
    /\ toastLast' = "render"
    /\ UNCHANGED <<toastMounted, toastVisible, toastDuration, toastShownFor,
                   toastDismissals, toastFrame>>

\* One tick passes while the Toast is shown; a timer that is due fires first.
ToastTick ==
    /\ toastMounted
    /\ toastVisible
    /\ toastTimer # 0
    /\ toastShownFor < MaxShown
    /\ toastShownFor' = toastShownFor + 1
    /\ toastTimer' = (IF toastTimer > 0 THEN toastTimer - 1 ELSE toastTimer)
    /\ toastLast' = "tick"
    /\ UNCHANGED <<toastMounted, toastVisible, toastDuration,
                   toastDismissals, toastFrame>>

\* The timer fires: setTimeout calls onDismiss.
ToastTimerFires ==
    /\ toastTimer = 0
    /\ toastTimer' = NoTimer
    /\ toastDismissals' = toastDismissals + 1
    /\ toastLast' = "timer"
    /\ UNCHANGED <<toastMounted, toastVisible, toastDuration, toastShownFor,
                   toastFrame>>

\* The close button calls onDismiss.
ToastPressClose ==
    /\ toastMounted
    /\ toastVisible
    /\ showCloseButton
    /\ toastLast' = "close"
    /\ UNCHANGED <<toastMounted, toastVisible, toastDuration, toastTimer,
                   toastShownFor, toastDismissals, toastFrame>>

\* The Toast is unmounted: the clean-up clears the pending timer.
ToastUnmount ==
    /\ toastMounted
    /\ toastMounted' = FALSE
    /\ toastTimer' = NoTimer
    /\ toastLast' = "unmount"
    /\ UNCHANGED <<toastVisible, toastDuration, toastShownFor,
                   toastDismissals, toastFrame>>

NextToast ==
    \/ ToastSetVisible
    \/ ToastRender
    \/ ToastTick
    \/ ToastTimerFires
    \/ ToastPressClose
    \/ ToastUnmount

SpecToast == InitToast /\ [][NextToast]_vars

(***************************************************************************)
(* The Alert alone (src/components/Alert.tsx): its auto-dismiss timer.     *)
(* type and autoDismiss are fixed when the Alert is mounted; its parent    *)
(* shows, hides, renders and unmounts it while time passes.                *)
(***************************************************************************)
\* The longest autoDismiss prop explored, in ticks.
MaxAutoDismiss == 2

AlertTypes == {"modal", "toast", "inline"}

\* The timer effect started for an Alert of any type.
alertEffectAnyType(visible, type, autoDismiss) ==
    IF visible /\ autoDismiss # NoAutoDismiss /\ autoDismiss > 0
    THEN autoDismiss
    ELSE NoTimer

\* The timer effect of the Alert, run after its clean-up: the timer it
\* leaves pending.
alertEffect(visible, type, autoDismiss) ==
    IF visible /\ type = "toast" /\ autoDismiss # NoAutoDismiss
           /\ autoDismiss > 0
    THEN autoDismiss
    ELSE NoTimer

InitAlert ==
    /\ PickerIdle
    /\ ToastAbsent
    /\ CarouselAbsent
    /\ QueueAbsent
    /\ ProviderAbsent
    /\ TabsAbsent
    /\ alertMounted = TRUE
    /\ alertVisible \in BOOLEAN
    /\ alertType \in AlertTypes
    /\ alertAutoDismiss \in {NoAutoDismiss} \cup 0..MaxAutoDismiss
    /\ alertTimer = alertEffect(alertVisible, alertType, alertAutoDismiss)
    /\ alertFired = 0
    /\ alertLast = "mount"

\* The parent sets visible: the clean-up clears the pending timer, the
\* effect starts one for a visible toast with autoDismiss > 0.
AlertSetVisible ==
    /\ alertMounted
    /\ alertVisible' = ~alertVisible
    /\ alertTimer' = alertEffect(alertVisible', alertType, alertAutoDismiss)
    /\ alertFired' = 0
    /\ alertLast' = (IF alertVisible' THEN "show" ELSE "hide")
    /\ UNCHANGED <<alertMounted, alertType, alertAutoDismiss, alertFrame>>

\* The parent renders the Alert again with the same visible, type and
\* autoDismiss: no dependency of the timer effect has changed.
AlertRender ==
    /\ alertMounted
    /\ alertLast' = "render"
    /\ UNCHANGED <<alertMounted, alertVisible, alertType, alertAutoDismiss,
                   alertTimer, alertFired, alertFrame>>

\* One tick passes on the pending timer.
AlertTick ==
    /\ alertTimer > 0
    /\ alertTimer' = alertTimer - 1
    /\ alertLast' = "tick"
    /\ UNCHANGED <<alertMounted, alertVisible, alertType, alertAutoDismiss,
                   alertFired, alertFrame>>

\* The timer fires: setTimeout calls handleDismiss, which calls onDismiss.
AlertTimerFires ==
    /\ alertTimer = 0
    /\ alertTimer' = NoTimer
    /\ alertFired' = alertFired + 1
    /\ alertLast' = "timer"
    /\ UNCHANGED <<alertMounted, alertVisible, alertType, alertAutoDismiss,
                   alertFrame>>

\* The close button, the backdrop or the back request calls handleDismiss.
AlertPressClose ==
    /\ alertMounted
    /\ alertVisible
    /\ alertLast' = "close"
    /\ UNCHANGED <<alertMounted, alertVisible, alertType, alertAutoDismiss,
                   alertTimer, alertFired, alertFrame>>

\* The Alert is unmounted: the clean-up clears the pending timer.
AlertUnmount ==
    /\ alertMounted
    /\ alertMounted' = FALSE
    /\ alertTimer' = NoTimer
    /\ alertLast' = "unmount"
    /\ UNCHANGED <<alertVisible, alertType, alertAutoDismiss, alertFired,
                   alertFrame>>

NextAlert ==
    \/ AlertSetVisible
    \/ AlertRender
    \/ AlertTick
    \/ AlertTimerFires
    \/ AlertPressClose
    \/ AlertUnmount

SpecAlert == InitAlert /\ [][NextAlert]_vars

(***************************************************************************)
(* The Carousel alone (src/unnamed/part_001), with its dots and arrows     *)
(* shown: data, infinite and autoPlay are fixed when it is mounted.        *)
(***************************************************************************)
\* The most items explored.
MaxItems == 3

\* itemWidth + itemSpacing, in the unit of the scroll offsets.
totalItemWidth == 2

\* Math.min, Math.max
mathMin(a, b) == IF a <= b THEN a ELSE b

mathMax(a, b) == IF a >= b THEN a ELSE b

\* Math.round(x / totalItemWidth) for an integer offset x: halves round up.
roundedIndex(x) == (2 * x + totalItemWidth) \div (2 * totalItemWidth)

\* The offsets a scroll can end on: from one item before the first to one
\* item after the last.
ScrollOffsets == (-totalItemWidth)..((dataLength + 1) * totalItemWidth)

InitCarousel ==
    /\ PickerIdle
    /\ ToastAbsent
    /\ AlertAbsent
    /\ QueueAbsent
    /\ ProviderAbsent
    /\ TabsAbsent
    /\ dataLength \in 1..MaxItems
    /\ infinite \in BOOLEAN
    /\ autoPlay \in BOOLEAN
    /\ currentIndex \in 0..(dataLength - 1)
    /\ slideCalls = <<>>
    /\ carouselLast = Step("mount", currentIndex)

\* goToSlide without the clamp to 0..data.length - 1.
goToSlideUnclamped(index) ==
    /\ currentIndex' = index
    /\ slideCalls' = <<index>>

goToSlide(index) ==
    \E targetIndex \in {mathMax(0, mathMin(index, dataLength - 1))} :
        /\ currentIndex' = targetIndex
        /\ slideCalls' = <<targetIndex>>

\* A pagination dot is pressed.
PressDot ==
    \E index \in 0..(dataLength - 1) :
        /\ goToSlide(index)
        /\ carouselLast' = Step("dot", index)
        /\ UNCHANGED <<dataLength, infinite, autoPlay, carouselFrame>>

\* The left arrow is pressed; it is disabled on the first slide unless
\* infinite.
PressPrevArrow ==
    /\ dataLength >= 1
    /\ ~(~infinite /\ currentIndex = 0)
    /\ goToSlide(currentIndex - 1)
    /\ carouselLast' = Step("prev", currentIndex - 1)
    /\ UNCHANGED <<dataLength, infinite, autoPlay, carouselFrame>>

\* The right arrow is pressed; it is disabled on the last slide unless
\* infinite.
PressNextArrow ==
    /\ dataLength >= 1
    /\ ~(~infinite /\ currentIndex = dataLength - 1)
    /\ goToSlide(currentIndex + 1)
    /\ carouselLast' = Step("next", currentIndex + 1)
    /\ UNCHANGED <<dataLength, infinite, autoPlay, carouselFrame>>

\* handleScroll for a scroll that ends on offset x.
handleScroll(x) ==
    \E newIndex \in {roundedIndex(x)} :
        IF newIndex # currentIndex /\ newIndex >= 0 /\ newIndex < dataLength
        THEN /\ currentIndex' = newIndex
             /\ slideCalls' = <<newIndex>>
        ELSE /\ slideCalls' = <<>>
             /\ UNCHANGED currentIndex

\* The user's scroll comes to rest (onMomentumScrollEnd).
ScrollEnd ==
    /\ dataLength >= 1
    /\ \E x \in ScrollOffsets :
           /\ handleScroll(x)
           /\ carouselLast' = Step("scroll", x)
    /\ UNCHANGED <<dataLength, infinite, autoPlay, carouselFrame>>

\* The interval of the auto-play effect elapses.
AutoPlayTick ==
    /\ autoPlay
    /\ dataLength > 1
    /\ \E nextIndex \in {IF infinite THEN (currentIndex + 1) % dataLength
                          ELSE mathMin(currentIndex + 1, dataLength - 1)} :
           /\ IF nextIndex # currentIndex
              THEN goToSlide(nextIndex)
              ELSE slideCalls' = <<>> /\ UNCHANGED currentIndex
           /\ carouselLast' = Step("autoPlay", nextIndex)
    /\ UNCHANGED <<dataLength, infinite, autoPlay, carouselFrame>>

NextCarousel ==
    \/ PressDot
    \/ PressPrevArrow
    \/ PressNextArrow
    \/ ScrollEnd
    \/ AutoPlayTick

SpecCarousel == InitCarousel /\ [][NextCarousel]_vars

(***************************************************************************)
(* The ToastQueue alone (src/unnamed/part_002): queueAdded and queueShown  *)
(* record, in order, the toasts given to add and those handed to the show  *)
(* function.                                                               *)
(***************************************************************************)
\* The most toasts added in one behaviour.
MaxAdds == 3

\* success, error, warning and info
ToastTypes == {"success", "error", "warning", "info"}

\* The show functions a provider registers.
ShowFns == {"showToast"}

\* The queue after construction: nothing queued, no show function.
InitQueue ==
    /\ PickerIdle
    /\ ToastAbsent
    /\ AlertAbsent
    /\ CarouselAbsent
    /\ ProviderAbsent
    /\ TabsAbsent
    /\ queue = <<>>
    /\ showToastFn = NoFn
    /\ queueAdded = <<>>
    /\ queueShown = <<>>

\* processQueue taking the newest toast (queue.pop()) in place of the oldest.
processQueueFromEnd(fn, q) ==
    IF fn # NoFn /\ Len(q) > 0
    THEN /\ queue' = SubSeq(q, 1, Len(q) - 1)
         /\ queueShown' = Append(queueShown, q[Len(q)])
    ELSE /\ queue' = q
         /\ UNCHANGED queueShown

\* processQueue, run with show function fn on queue q: one toast at most is
\* shifted off the queue and handed to the show function.
processQueue(fn, q) ==
    IF fn # NoFn /\ Len(q) > 0
    THEN /\ queue' = Tail(q)
         /\ queueShown' = Append(queueShown, Head(q))
    ELSE /\ queue' = q
         /\ UNCHANGED queueShown

\* setShowToast(fn)
setShowToast ==
    /\ \E fn \in ShowFns :
           /\ showToastFn' = fn
           /\ processQueue(fn, queue)
    /\ UNCHANGED <<queueAdded, queueFrame>>

\* add(props), reached through success, error, warning and info; the id is
\* the serial number of the toast.
add ==
    /\ Len(queueAdded) < MaxAdds
    /\ \E type \in ToastTypes :
           \E toast \in {[id |-> Len(queueAdded) + 1, type |-> type]} :
               /\ queueAdded' = Append(queueAdded, toast)
               /\ processQueue(showToastFn, Append(queue, toast))
    /\ UNCHANGED <<showToastFn, queueFrame>>

NextQueue ==
    \/ setShowToast
    \/ add

SpecQueue == InitQueue /\ [][NextQueue]_vars

(***************************************************************************)
(* The ToastProvider alone (src/unnamed/part_002): dateNow is the clock    *)
(* read by Date.now(), in milliseconds; each toast carries, beside its id, *)
(* the serial number of the showToast call that made it.                   *)
(***************************************************************************)
\* The milliseconds the clock advances in one behaviour.
MaxMs == 2

\* The most showToast calls in one behaviour.
MaxShows == 3

InitProvider ==
    /\ PickerIdle
    /\ ToastAbsent
    /\ AlertAbsent
    /\ CarouselAbsent
    /\ QueueAbsent
    /\ TabsAbsent
    /\ toasts = <<>>
    /\ dateNow = 0
    /\ toastsShown = 0
    /\ providerLast = Step("mount", 0)

\* The clock passes to the next millisecond.
ProviderClockTick ==
    /\ dateNow < MaxMs
    /\ dateNow' = dateNow + 1
    /\ providerLast' = Step("tick", dateNow + 1)
    /\ UNCHANGED <<toasts, toastsShown, providerFrame>>

\* showToast(props): the id is Date.now().toString().
showToast ==
    /\ toastsShown < MaxShows
    /\ \E toast \in {[id |-> toString(dateNow), serial |-> toastsShown + 1]} :
           /\ toasts' = Append(toasts, toast)
           /\ providerLast' = Step("show", toast.serial)
    /\ toastsShown' = toastsShown + 1
    /\ UNCHANGED <<dateNow, providerFrame>>

\* The onDismiss of a toast: prev.filter((t) => t.id !== id).
onDismissKeeping(id, t) == t.id # id

\* The onDismiss of one of the toasts on show is called, by its timer or its
\* close button.
ProviderDismiss ==
    /\ \E i \in 1..Len(toasts) :
           /\ toasts' = SelectSeq(toasts, LAMBDA t : onDismissKeeping(toasts[i].id, t))
           /\ providerLast' = Step("dismiss", toasts[i].serial)
    /\ UNCHANGED <<dateNow, toastsShown, providerFrame>>

NextProvider ==
    \/ ProviderClockTick
    \/ showToast
    \/ ProviderDismiss

SpecProvider == InitProvider /\ [][NextProvider]_vars

(***************************************************************************)
(* The Tabs alone (src/components/Tabs.tsx): items and initialTab are      *)
(* fixed when they are mounted; the i-th item has the id i.                *)
(***************************************************************************)
\* The most tabs explored.
MaxTabs == 3

\* The items of n tabs, each disabled or not.
ItemsOf(n) ==
    {[i \in 1..n |-> [id |-> i, disabled |-> d[i]]] : d \in [1..n -> BOOLEAN]}

\* What find returns when no item has the id: undefined, whose disabled is
\* not set.
NoItem == [id |-> NoTab, disabled |-> FALSE]

\* items.find((item) => item.id === tabId)
find(tabId) ==
    IF \E i \in 1..Len(items) : items[i].id = tabId
    THEN items[CHOOSE i \in 1..Len(items) :
                   /\ items[i].id = tabId
                   /\ \A j \in 1..(i - 1) : items[j].id # tabId]
    ELSE NoItem

\* useState(initialTab || items[0]?.id); initialTab is absent, the id of a
\* tab, or an id no tab has.
InitTabs ==
    /\ PickerIdle
    /\ ToastAbsent
    /\ AlertAbsent
    /\ CarouselAbsent
    /\ QueueAbsent
    /\ ProviderAbsent
    /\ \E n \in 0..MaxTabs : items \in ItemsOf(n)
    /\ initialTab \in {NoTab} \cup 1..(Len(items) + 1)
    /\ activeTab = (IF initialTab # NoTab THEN initialTab
                    ELSE IF Len(items) > 0 THEN items[1].id ELSE NoTab)
    /\ tabCalls = <<>>
    /\ tabsLast = Step("mount", activeTab)

\* handleTabPress without the call of onTabChange.
handleTabPressSilently(tabId) ==
    IF find(tabId).disabled
    THEN /\ tabCalls' = <<>>
         /\ UNCHANGED activeTab
    ELSE /\ activeTab' = tabId
         /\ tabCalls' = <<>>

handleTabPress(tabId) ==
    IF find(tabId).disabled
    THEN /\ tabCalls' = <<>>
         /\ UNCHANGED activeTab
    ELSE /\ activeTab' = tabId
         /\ tabCalls' = <<tabId>>

\* A tab of the tab bar is pressed; the TouchableOpacity of a disabled item
\* is itself disabled and never calls onPress.
PressTab ==
    /\ \E i \in 1..Len(items) :
           /\ tabsLast' = Step("press", items[i].id)
           /\ IF items[i].disabled
              THEN /\ tabCalls' = <<>>
                   /\ UNCHANGED activeTab
              ELSE handleTabPress(items[i].id)
    /\ UNCHANGED <<items, initialTab, tabsFrame>>

NextTabs == PressTab

SpecTabs == InitTabs /\ [][NextTabs]_vars

(***************************************************************************)
(* The calendar as the claims state it, on year, month (0..11) and day.    *)
(***************************************************************************)
Fields(t) == [year |-> getFullYear(t), month |-> getMonth(t), date |-> getDate(t)]

DaysInMonth(y, m) ==
    IF m = 1 THEN (IF (y % 4 = 0 /\ y % 100 # 0) \/ y % 400 = 0 THEN 29 ELSE 28)
    ELSE IF m \in {3, 5, 8, 10} THEN 30
    ELSE 31

\* The calendar day after f, with month and year rollover.
NextCalendarDay(f) ==
    IF f.date < DaysInMonth(f.year, f.month)
    THEN [f EXCEPT !.date = f.date + 1]
    ELSE IF f.month < 11
    THEN [year |-> f.year, month |-> f.month + 1, date |-> 1]
    ELSE [year |-> f.year + 1, month |-> 0, date |-> 1]

\* The weekday (Sunday = 0) of a calendar day, from its fields alone.
WeekdayOf(y, m, d) ==
    LET yy == IF m < 2 THEN y - 1 ELSE y
        off == <<0, 3, 2, 5, 0, 3, 5, 1, 4, 6, 2, 4>>[m + 1]
    IN  (yy + (yy \div 4) - (yy \div 100) + (yy \div 400) + off + d) % 7

\* The month after (delta = 1) or before (delta = -1) the month of f.
MonthAfter(f, delta) ==
    IF delta > 0
    THEN (IF f.month = 11 THEN [year |-> f.year + 1, month |-> 0]
          ELSE [year |-> f.year, month |-> f.month + 1])
    ELSE (IF f.month = 0 THEN [year |-> f.year - 1, month |-> 11]
          ELSE [year |-> f.year, month |-> f.month - 1])

\* C1: for every display month the grid has exactly 42 entries and each entry
\* is the calendar day after the previous one, with month and year rollover.
C1_GridIs42ConsecutiveDays ==
    \A days \in {generateCalendarDays} :
        /\ Len(days) = 42
        /\ \A i \in 1..(Len(days) - 1) :
               Fields(days[i + 1]) = NextCalendarDay(Fields(days[i]))

\* C1 witness: a December grid that runs into January of the next year, and
\* a leap-year February grid holding February 29th.
C1_Witness ==
    \/ /\ getMonth(currentMonth) = 11
       /\ last.op = "nextMonth"
       /\ \E i \in 1..GridSize :
              Fields(generateCalendarDays[i]) =
                  [year |-> getFullYear(currentMonth) + 1, month |-> 0, date |-> 1]
    \/ /\ getMonth(currentMonth) = 1
       /\ last.op = "nextMonth"
       /\ \E i \in 1..GridSize :
              /\ getMonth(generateCalendarDays[i]) = 1
              /\ getDate(generateCalendarDays[i]) = 29

\* C2: entry 0 of the grid is the Sunday on or before the 1st of the display
\* month, the entry at index weekdayOf(1st) is the 1st, and every day of the
\* display month is in the grid.
C2_GridStartsOnSundayAndCoversMonth ==
    \A days \in {generateCalendarDays} :
        LET y == getFullYear(currentMonth)
            m == getMonth(currentMonth)
            w == WeekdayOf(y, m, 1)
            f0 == Fields(days[1])
        IN  /\ WeekdayOf(f0.year, f0.month, f0.date) = 0
            /\ getDay(days[1]) = 0
            /\ Fields(days[w + 1]) = [year |-> y, month |-> m, date |-> 1]
            /\ { [year |-> y, month |-> m, date |-> d] : d \in 1..DaysInMonth(y, m) }
                   \subseteq { Fields(days[i]) : i \in 1..Len(days) }

\* C2 witness: a 31-day month whose 1st is a Saturday, the latest the month
\* can end in the grid, and a month whose 1st is a Sunday.
C2_Witness ==
    /\ last.op \in {"prevMonth", "nextMonth"}
    /\ \/ /\ getDay(NewDate(getFullYear(currentMonth), getMonth(currentMonth), 1)) = 6
          /\ DaysInMonth(getFullYear(currentMonth), getMonth(currentMonth)) = 31
       \/ getDay(currentMonth) = 0

\* C3: a grid entry is marked in-current-month iff it is a day of the display
\* month of the display year; the marked entries are exactly its days 1..last.
C3_InCurrentMonthIffDisplayMonth ==
    \A cells \in {renderCalendarDays} :
        LET y == getFullYear(currentMonth)
            m == getMonth(currentMonth)
        IN  /\ \A i \in 1..Len(cells) :
                   cells[i].isCurrentMonth <=>
                       /\ getFullYear(cells[i].day) = y
                       /\ getMonth(cells[i].day) = m
            /\ { Fields(cells[i].day) : i \in { j \in 1..Len(cells) : cells[j].isCurrentMonth } }
                   = { [year |-> y, month |-> m, date |-> d] : d \in 1..DaysInMonth(y, m) }
            /\ Cardinality({ j \in 1..Len(cells) : cells[j].isCurrentMonth })
                   = DaysInMonth(y, m)

\* C3 witness: a January grid, with leading entries of December of the year
\* before and trailing entries of February.
C3_Witness ==
    /\ getMonth(currentMonth) = 0
    /\ last.op = "prevMonth"
    /\ getMonth(generateCalendarDays[1]) = 11
    /\ getMonth(generateCalendarDays[GridSize]) = 1
    /\ ~renderCalendarDays[1].isCurrentMonth
    /\ ~renderCalendarDays[GridSize].isCurrentMonth

(***************************************************************************)
(* Selectability as the claims state it: by calendar day, inclusive.       *)
(***************************************************************************)
\* f is the same calendar day as g, or an earlier one.
OnOrBefore(f, g) ==
    \/ f.year < g.year
    \/ f.year = g.year /\ f.month < g.month
    \/ f.year = g.year /\ f.month = g.month /\ f.date <= g.date

CalendarDaySelectable(date, min, max) ==
    /\ min = NoDate \/ OnOrBefore(Fields(min), Fields(date))
    /\ max = NoDate \/ OnOrBefore(Fields(date), Fields(max))

\* C4: a date is selectable iff it is on or after min's calendar day and on or
\* before max's, whatever the time of day min and max carry; stated of the
\* day cells of the open calendar.
C4_SelectableIffWithinBoundsByCalendarDay ==
    isModalVisible =>
        \A cells \in {renderCalendarDays} :
            \A i \in 1..Len(cells) :
                cells[i].isSelectable
                    <=> CalendarDaySelectable(cells[i].day, minDate, maxDate)

\* C5: selecting a date that is not selectable changes neither selectedDate,
\* nor the display month, nor the modal, and calls no callback.
C5_RejectedSelectIsNoOp ==
    [][(/\ last'.op = "handleDateSelect"
        /\ ~CalendarDaySelectable(last'.date, minDate, maxDate))
       => /\ selectedDate' = selectedDate
          /\ currentMonth' = currentMonth
          /\ isModalVisible' = isModalVisible
          /\ calls' = <<>>]_vars

\* C5 witness: the open picker after a press on a day before min or after max.
C5_Witness ==
    /\ last.op = "handleDateSelect"
    /\ ~CalendarDaySelectable(last.date, minDate, maxDate)
    /\ isModalVisible
    /\ selectedDate # last.date

\* C6: selecting a selectable date d sets selectedDate to d, calls onChange(d)
\* once, hides the modal and calls onClose once.
C6_SelectSetsDateReportsAndCloses ==
    [][(/\ last'.op = "handleDateSelect"
        /\ CalendarDaySelectable(last'.date, minDate, maxDate))
       => /\ selectedDate' = last'.date
          /\ calls' = <<Call("onChange", last'.date), Call("onClose", NoDate)>>
          /\ ~isModalVisible']_vars

\* C7: selecting a selectable date of another month than the one displayed
\* makes that month the display month; selecting one of the displayed month
\* leaves the display month unchanged.
C7_SelectOutsideMonthMovesDisplayMonth ==
    [][(/\ last'.op = "handleDateSelect"
        /\ CalendarDaySelectable(last'.date, minDate, maxDate)
        /\ isDateSelectable(last'.date))
       => IF MonthIndex(last'.date) # MonthIndex(currentMonth)
          THEN MonthIndex(currentMonth') = MonthIndex(last'.date)
          ELSE currentMonth' = currentMonth]_vars

\* C8: one step of month navigation sets the display date to the 1st of the
\* month just before or just after the displayed one, with year rollover,
\* whatever the day of the month of the display date.
C8_NavigateMovesOneMonth ==
    [][(last'.op \in {"prevMonth", "nextMonth"})
       => LET to == MonthAfter(Fields(currentMonth),
                               IF last'.op = "nextMonth" THEN 1 ELSE -1)
          IN  /\ Fields(currentMonth') =
                     [year |-> to.year, month |-> to.month, date |-> 1]
              /\ TimeWithinDay(currentMonth') = 0]_vars

\* C8 witness: the picker opened on January 31st, navigated to February (the
\* month a day-preserving step skips) or back to December of the year before.
C8_Witness ==
    /\ getMonth(value) = 0
    /\ getDate(value) = 31
    /\ \/ /\ last.op = "nextMonth"
          /\ Fields(currentMonth) =
                 [year |-> getFullYear(value), month |-> 1, date |-> 1]
       \/ /\ last.op = "prevMonth"
          /\ Fields(currentMonth) =
                 [year |-> getFullYear(value) - 1, month |-> 11, date |-> 1]

\* C9: month navigation changes the display month and nothing else:
\* selectedDate is unchanged, no callback is called, the modal stays shown.
C9_NavigateChangesOnlyDisplayMonth ==
    [][(last'.op \in {"prevMonth", "nextMonth"})
       => /\ selectedDate' = selectedDate
          /\ calls' = <<>>
          /\ isModalVisible /\ isModalVisible'
          /\ MonthIndex(currentMonth') # MonthIndex(currentMonth)
          /\ UNCHANGED <<value, minDate, maxDate, disabled>>]_vars

\* C9 witness: after navigation the selected date lies outside the month shown.
C9_Witness ==
    /\ last.op \in {"prevMonth", "nextMonth"}
    /\ MonthIndex(selectedDate) # MonthIndex(currentMonth)
    /\ isModalVisible

\* C10: from any state, Today sets selectedDate to today, makes today's month
\* the display month, calls onChange(today) and closes the picker.
C10_TodaySelectsTodayAndShowsItsMonth ==
    [][(last'.op = "handleToday")
       => /\ now' >= now
          /\ selectedDate' = now'
          /\ MonthIndex(currentMonth') = MonthIndex(now')
          /\ NewDate(getFullYear(currentMonth'), getMonth(currentMonth'), 1)
                 = NewDate(getFullYear(now'), getMonth(now'), 1)
          /\ calls' = <<Call("onChange", now'), Call("onClose", NoDate)>>
          /\ ~isModalVisible']_vars

\* C10 witness: Today pressed while another month than today's was shown and
\* another day was selected; afterwards today's month is shown.
C10_Witness ==
    /\ last.op = "handleToday"
    /\ value # NoDate
    /\ MonthIndex(value) # MonthIndex(now)
    /\ MonthIndex(currentMonth) = MonthIndex(now)
    /\ selectedDate = now
    /\ ~isModalVisible

(***************************************************************************)
(* Clearing, the first render, dismissal, the open/close callbacks and the *)
(* disabled picker.                                                        *)
(***************************************************************************)
\* C11: clear sets selectedDate to today and reports that date through
\* onChange, once; the display month and the modal are unchanged and neither
\* onOpen nor onClose is called.  The date reported is compared with the
\* date set by calendar day.
C11_ClearSelectsTodayAndReportsIt ==
    [][(last'.op = "handleClear")
       => /\ now <= selectedDate' /\ selectedDate' <= now'
          /\ Len(calls') = 1
          /\ calls'[1].cb = "onChange"
          /\ Fields(calls'[1].arg) = Fields(selectedDate')
          /\ currentMonth' = currentMonth
          /\ isModalVisible' = isModalVisible]_vars

\* C12: after the first render selectedDate is the value supplied, or today
\* without one; the display month is the month of selectedDate; the modal is
\* hidden and no callback has been called.
C12_InitialStateShowsMonthOfSelectedDate ==
    (last.op = "init")
        => /\ IF value # NoDate THEN selectedDate = value
              ELSE ClockStart <= selectedDate /\ selectedDate <= now
           /\ MonthIndex(currentMonth) = MonthIndex(selectedDate)
           /\ ~isModalVisible
           /\ calls = <<>>

\* C17: a dismissal of the open picker (Cancel, the header's close button,
\* the backdrop, the back request) hides the modal, calls no onChange and
\* leaves selectedDate unchanged, whatever month was navigated to.
C17_DismissKeepsSelection ==
    [][(last'.op = "dismiss")
       => /\ isModalVisible /\ ~isModalVisible'
          /\ selectedDate' = selectedDate
          /\ \A i \in 1..Len(calls') : calls'[i].cb # "onChange"
          /\ UNCHANGED <<currentMonth, value>>]_vars

\* C17 witness: the picker dismissed after navigation to another month than
\* that of the selected date.
C17_Witness ==
    /\ last.op = "dismiss"
    /\ ~isModalVisible
    /\ selectedDate = value
    /\ MonthIndex(currentMonth) # MonthIndex(selectedDate)

\* The number of calls of callback cb by the latest handler.
CountOf(cb, cs) == Cardinality({ i \in 1..Len(cs) : cs[i].cb = cb })

Shown(visible) == IF visible THEN 1 ELSE 0

\* C18: onOpen is called each time the picker opens and onClose each time it
\* closes, whatever closes it, so that the calls of onOpen less those of
\* onClose are 1 while the modal is shown and 0 while it is hidden: every
\* step changes that difference by the change of the modal.
C18_OpenCloseCallbacksFollowModal ==
    [][CountOf("onOpen", calls') - CountOf("onClose", calls')
           = Shown(isModalVisible') - Shown(isModalVisible)]_vars

\* C19: while the picker is disabled the modal stays hidden and the clear
\* control is not rendered, and no step changes selectedDate or calls onOpen
\* or onChange.
C19_DisabledPickerIsInert ==
    /\ [](disabled => ~isModalVisible /\ ~clearAvailable)
    /\ [][disabled
            => /\ selectedDate' = selectedDate
               /\ \A i \in 1..Len(calls') :
                      calls'[i].cb \notin {"onOpen", "onChange"}]_vars

\* C19 witness: a disabled picker holding a value, after a press on its input.
C19_Witness ==
    /\ disabled
    /\ value # NoDate
    /\ last.op = "openModal"
    /\ ~isModalVisible

(***************************************************************************)
(* The text of the input as the claims state it.                           *)
(***************************************************************************)
DigitValue(c) == CHOOSE n \in 0..9 : Digit(n) = c

IsDigits(s) == \A i \in 1..Len(s) : s[i] \in { Digit(n) : n \in 0..9 }

\* The number a string of digits is the decimal of.
RECURSIVE NumberOf(_)
NumberOf(s) ==
    IF s = <<>> THEN 0
    ELSE 10 * NumberOf(SubSeq(s, 1, Len(s) - 1)) + DigitValue(s[Len(s)])

\* s is n in exactly two digits, zero-padded.
TwoDigitsOf(s, n) == Len(s) = 2 /\ IsDigits(s) /\ NumberOf(s) = n

\* s is n in decimal without padding.
UnpaddedOf(s, n) ==
    /\ Len(s) >= 1
    /\ IsDigits(s)
    /\ NumberOf(s) = n
    /\ Len(s) > 1 => s[1] # "0"

MonthAbbreviation(m) ==
    << <<"J", "a", "n">>,
       <<"F", "e", "b">>,
       <<"M", "a", "r">>,
       <<"A", "p", "r">>,
       <<"M", "a", "y">>,
       <<"J", "u", "n">>,
       <<"J", "u", "l">>,
       <<"A", "u", "g">>,
       <<"S", "e", "p">>,
       <<"O", "c", "t">>,
       <<"N", "o", "v">>,
       <<"D", "e", "c">> >>[m + 1]

ExampleDate == MakeDate(MakeDay(2024, 2, 5), 0)

\* C13: each of the five fixed formats renders the day and the month (1..12)
\* in exactly two zero-padded digits, MMM as Jan..Dec by the month 0..11 and
\* the year unpadded, in the order and with the separators of the format;
\* the 5th of March 2024 is "2024-03-05" and "05/03/2024".
C13_FixedFormatsPadDayAndMonth ==
    \A text \in {formatDate(value)} :
        LET f == Fields(value)
            n == Len(text)
        IN  /\ (format = "DD/MM/YYYY") =>
                   /\ n >= 7
                   /\ TwoDigitsOf(SubSeq(text, 1, 2), f.date)
                   /\ text[3] = "/"
                   /\ TwoDigitsOf(SubSeq(text, 4, 5), f.month + 1)
                   /\ text[6] = "/"
                   /\ UnpaddedOf(SubSeq(text, 7, n), f.year)
            /\ (format = "MM/DD/YYYY") =>
                   /\ n >= 7
                   /\ TwoDigitsOf(SubSeq(text, 1, 2), f.month + 1)
                   /\ text[3] = "/"
                   /\ TwoDigitsOf(SubSeq(text, 4, 5), f.date)
                   /\ text[6] = "/"
                   /\ UnpaddedOf(SubSeq(text, 7, n), f.year)
            /\ (format = "YYYY-MM-DD") =>
                   /\ n >= 7
                   /\ UnpaddedOf(SubSeq(text, 1, n - 6), f.year)
                   /\ text[n - 5] = "-"
                   /\ TwoDigitsOf(SubSeq(text, n - 4, n - 3), f.month + 1)
                   /\ text[n - 2] = "-"
                   /\ TwoDigitsOf(SubSeq(text, n - 1, n), f.date)
            /\ (format = "DD MMM YYYY") =>
                   /\ n >= 8
                   /\ TwoDigitsOf(SubSeq(text, 1, 2), f.date)
                   /\ text[3] = " "
                   /\ SubSeq(text, 4, 6) = MonthAbbreviation(f.month)
                   /\ text[7] = " "
                   /\ UnpaddedOf(SubSeq(text, 8, n), f.year)
            /\ (format = "MMM DD, YYYY") =>
                   /\ n >= 9
                   /\ SubSeq(text, 1, 3) = MonthAbbreviation(f.month)
                   /\ text[4] = " "
                   /\ TwoDigitsOf(SubSeq(text, 5, 6), f.date)
                   /\ SubSeq(text, 7, 8) = <<",", " ">>
                   /\ UnpaddedOf(SubSeq(text, 9, n), f.year)
            /\ (value = ExampleDate /\ format = "YYYY-MM-DD") =>
                   text = <<"2", "0", "2", "4", "-", "0", "3", "-", "0", "5">>
            /\ (value = ExampleDate /\ format = "DD/MM/YYYY") =>
                   text = <<"0", "5", "/", "0", "3", "/", "2", "0", "2", "4">>

\* C13 witness: the 5th of March 2024 shown as "05 Mar 2024", and the 31st of
\* December 2023 shown as "12/31/2023".
C13_Witness ==
    \/ /\ value = ExampleDate
       /\ format = "DD MMM YYYY"
       /\ inputText = <<"0", "5", " ", "M", "a", "r", " ", "2", "0", "2", "4">>
    \/ /\ format = "MM/DD/YYYY"
       /\ inputText = <<"1", "2", "/", "3", "1", "/", "2", "0", "2", "3">>

Starts(s, token) == Len(s) >= Len(token) /\ SubSeq(s, 1, Len(token)) = token

\* One pass over the pattern from left to right: at each position the
\* longest of the tokens YYYY, YY, MM, M, DD, D that starts there is replaced
\* by its text, and any other character is copied.
RECURSIVE SinglePass(_, _)
SinglePass(s, date) ==
    LET after(k) == SinglePass(SubSeq(s, k + 1, Len(s)), date)
        two(n) == padStart(toString(n), 2, <<"0">>)
    IN  IF s = <<>> THEN <<>>
        ELSE IF Starts(s, <<"Y", "Y", "Y", "Y">>)
             THEN toString(getFullYear(date)) \o after(4)
        ELSE IF Starts(s, <<"Y", "Y">>)
             THEN slice(toString(getFullYear(date)), -2) \o after(2)
        ELSE IF Starts(s, <<"M", "M">>)
             THEN two(getMonth(date) + 1) \o after(2)
        ELSE IF Starts(s, <<"M">>)
             THEN toString(getMonth(date) + 1) \o after(1)
        ELSE IF Starts(s, <<"D", "D">>)
             THEN two(getDate(date)) \o after(2)
        ELSE IF Starts(s, <<"D">>)
             THEN toString(getDate(date)) \o after(1)
        ELSE <<s[1]>> \o after(1)

\* C14: for every pattern the six replacements in sequence give the text of
\* one left-to-right pass that takes the longest token at each position: no
\* text put in by a replacement is replaced again, a pattern without Y, M
\* and D is returned as it is, and "D/M/YY" on the 5th of March 2024 is
\* "5/3/24".
C14_SequentialReplacesAreOnePass ==
    (customFormat # NoPattern) =>
        \A text \in {formatCustomDate(value, customFormat)} :
            /\ text = SinglePass(customFormat, value)
            /\ (\A i \in 1..Len(customFormat) :
                    customFormat[i] \notin {"Y", "M", "D"})
                   => text = customFormat
            /\ (value = ExampleDate
                    /\ customFormat = <<"D", "/", "M", "/", "Y", "Y">>)
                   => text = <<"5", "/", "3", "/", "2", "4">>

\* C14 witness: "D/M/YY" shown for the 5th of March 2024, and a pattern of
\* three M, which holds MM followed by M.
C14_Witness ==
    /\ format = "custom"
    /\ value = ExampleDate
    /\ \/ /\ customFormat = <<"D", "/", "M", "/", "Y", "Y">>
          /\ inputText = <<"5", "/", "3", "/", "2", "4">>
       \/ /\ customFormat = <<"M", "M", "M">>
          /\ inputText = <<"0", "3", "3">>

\* C15: for any year YYYY is replaced by exactly four decimal digits and YY
\* by exactly the two digits of the year modulo 100.
C15_YearTokensHaveFixedWidth ==
    \A year \in {getFullYear(value)} :
        /\ (customFormat = <<"Y", "Y", "Y", "Y">>) =>
               \A text \in {formatCustomDate(value, customFormat)} :
                   Len(text) = 4 /\ IsDigits(text) /\ NumberOf(text) = year
        /\ (customFormat = <<"Y", "Y">>) =>
               TwoDigitsOf(formatCustomDate(value, customFormat), year % 100)

\* C15, amended: YYYY is replaced by the decimal of the year without padding,
\* which has exactly four digits for the years 1000..9999 and no others; YY
\* is replaced by the last two characters of that decimal, the two digits of
\* the year modulo 100 for a year from 10 on and the one digit of the year
\* below.
C15_YearTokensFollowUnpaddedYear ==
    \A year \in {getFullYear(value)} :
        /\ (customFormat = <<"Y", "Y", "Y", "Y">>) =>
               \A text \in {formatCustomDate(value, customFormat)} :
                   /\ UnpaddedOf(text, year)
                   /\ Len(text) = 4 <=> (1000 <= year /\ year <= 9999)
        /\ (customFormat = <<"Y", "Y">>) =>
               \A text \in {formatCustomDate(value, customFormat)} :
                   IF year >= 10 THEN TwoDigitsOf(text, year % 100)
                   ELSE text = <<Digit(year)>>

\* C15 witness: the year 999 under YYYY shown in three digits, the year
\* 10000 in five, and the year 5 under YY in one.
C15_Witness ==
    /\ format = "custom"
    /\ \/ /\ customFormat = <<"Y", "Y", "Y", "Y">>
          /\ getFullYear(value) = 999
          /\ inputText = <<"9", "9", "9">>
       \/ /\ customFormat = <<"Y", "Y", "Y", "Y">>
          /\ getFullYear(value) = 10000
          /\ Len(inputText) = 5
       \/ /\ customFormat = <<"Y", "Y">>
          /\ getFullYear(value) = 5
          /\ inputText = <<"5">>

\* C16: under the custom format the text is the locale rendering exactly
\* when customFormat is absent; whenever a pattern string is supplied the
\* text is the token substitution over it.
C16_FallbackExactlyWhenPatternAbsent ==
    (format = "custom") =>
        formatDate(value) =
            IF customFormat = NoPattern THEN toLocaleDateString(value)
            ELSE formatCustomDate(value, customFormat)

\* C16, amended: under the custom format the text is the locale rendering
\* exactly when customFormat is absent or the empty string; for every other
\* pattern string it is the token substitution over it.
C16_FallbackWhenPatternAbsentOrEmpty ==
    (format = "custom") =>
        formatDate(value) =
            IF customFormat \in {NoPattern, <<>>} THEN toLocaleDateString(value)
            ELSE formatCustomDate(value, customFormat)

\* C16 witness: the custom format with an empty pattern shows the locale
\* rendering, not the empty text of the substitution.
C16_Witness ==
    /\ format = "custom"
    /\ customFormat = <<>>
    /\ formatCustomDate(value, customFormat) = <<>>
    /\ inputText = toLocaleDateString(value)
    /\ inputText # <<>>

(***************************************************************************)
(* The auto-dismiss timer of the Toast.                                    *)
(***************************************************************************)
\* C20: a Toast shown with duration > 0 has onDismiss called by its timer
\* once it has been shown for duration ticks, unless it is hidden or
\* unmounted first; hiding or unmounting leaves no timer pending, so that
\* none fires afterwards; with duration 0 no timer is ever pending and the
\* timer never calls onDismiss.
C20_TimerDismissesOnceDurationElapses ==
    /\ (toastMounted /\ toastVisible /\ toastDuration > 0)
           => ((toastShownFor >= toastDuration /\ toastTimer # 0)
                  => toastDismissals >= 1)
    /\ (~toastMounted \/ ~toastVisible) => toastTimer = NoTimer
    /\ (toastDuration = 0) => (toastTimer = NoTimer /\ toastDismissals = 0)
    /\ (toastLast = "timer") => (toastMounted /\ toastVisible /\ toastDuration > 0)

(***************************************************************************)
(* The bounds over every action, and month navigation composed.            *)
(***************************************************************************)
\* C24: with fixed bounds, every date a step passes to onChange, and the
\* selectedDate a step sets, is selectable under the bounds (by calendar
\* day), whatever the action: open, navigate, select, Today, Clear, dismiss.
C24_ReportedDatesAreSelectable ==
    [][/\ \A i \in 1..Len(calls') :
              (calls'[i].cb = "onChange")
                  => CalendarDaySelectable(calls'[i].arg, minDate, maxDate)
       /\ (selectedDate' # selectedDate)
              => CalendarDaySelectable(selectedDate', minDate, maxDate)]_vars

\* C25: month steps add up: after any interleaving of next and previous
\* steps the display month is the month opened on moved by the number of
\* next steps less that of previous steps; equal numbers give the year and
\* month opened on, and twelve more next steps than previous steps give the
\* same month of the year after.
C25_NavigationAddsUp ==
    /\ MonthIndex(currentMonth) = MonthIndex(value) + navSteps
    /\ (navSteps = 0) =>
           /\ getFullYear(currentMonth) = getFullYear(value)
           /\ getMonth(currentMonth) = getMonth(value)
    /\ (navSteps = 12) =>
           /\ getFullYear(currentMonth) = getFullYear(value) + 1
           /\ getMonth(currentMonth) = getMonth(value)

\* C25 witness: back on the month opened on after next and previous steps in
\* equal numbers, and on the same month of the year after by twelve steps.
C25_Witness ==
    \/ /\ navSteps = 0
       /\ last.op = "prevMonth"
       /\ getDate(value) = 31
       /\ MonthIndex(currentMonth) = MonthIndex(value)
    \/ /\ navSteps = 12
       /\ last.op = "nextMonth"
       /\ getMonth(currentMonth) = getMonth(value)

(***************************************************************************)
(* The auto-dismiss timer of the Alert.                                    *)
(***************************************************************************)
\* C21: the timer of an Alert calls onDismiss only for a mounted, visible
\* Alert of type toast with autoDismiss > 0; a modal or inline Alert never has
\* a timer; a hidden or unmounted Alert has none pending, so a timer cut short
\* never fires; the timer calls onDismiss at most once per visible period.
C21_AlertTimerOnlyForVisibleToast ==
    /\ (alertLast = "timer")
           => /\ alertMounted /\ alertVisible
              /\ alertType = "toast"
              /\ alertAutoDismiss > 0
    /\ (alertType # "toast") => (alertTimer = NoTimer /\ alertFired = 0)
    /\ (~alertVisible \/ ~alertMounted) => alertTimer = NoTimer
    /\ (alertAutoDismiss = NoAutoDismiss \/ alertAutoDismiss = 0)
           => (alertTimer = NoTimer /\ alertFired = 0)
    /\ alertFired <= 1

\* C21 witness: the timer of a visible toast has fired, and the Alert is
\* rendered again or closed by hand afterwards without a second call.
C21_Witness ==
    /\ alertFired = 1
    /\ alertVisible
    /\ alertType = "toast"
    /\ alertLast \in {"timer", "render", "close"}

(***************************************************************************)
(* The Carousel.                                                           *)
(***************************************************************************)
\* C22: with infinite set and at least two items, a step forward from the
\* last slide, by auto-play or by the next arrow, goes to the first slide,
\* and the previous arrow on the first slide goes to the last.
C22_InfiniteWrapsAround ==
    [][(infinite /\ dataLength >= 2)
       => /\ (carouselLast'.op \in {"next", "autoPlay"}
                /\ currentIndex = dataLength - 1)
               => currentIndex' = 0
          /\ (carouselLast'.op = "prev" /\ currentIndex = 0)
               => currentIndex' = dataLength - 1]_vars

\* C23: every index a step passes to onSlideChange is the new current index
\* and differs from the index that was current before the step.
C23_SlideChangeOnlyOnChange ==
    [][\A i \in 1..Len(slideCalls') :
           /\ slideCalls'[i] = currentIndex'
           /\ currentIndex' # currentIndex]_vars

\* C29: for a Carousel of at least one item mounted on an index within
\* 0..length - 1, the current index and every index passed to onSlideChange
\* stay within 0..length - 1, whatever dots, arrows, scroll ends and
\* auto-play ticks follow.
C29_IndexStaysInRange ==
    (dataLength >= 1)
        => /\ currentIndex \in 0..(dataLength - 1)
           /\ \A i \in 1..Len(slideCalls) :
                  slideCalls[i] \in 0..(dataLength - 1)

\* C29 witness: an arrow pressed past either end, and a scroll that came to
\* rest beyond the last item or before the first.
C29_Witness ==
    \/ /\ carouselLast.op = "next"
       /\ carouselLast.arg = dataLength
       /\ currentIndex = dataLength - 1
    \/ /\ carouselLast.op = "prev"
       /\ carouselLast.arg = -1
       /\ currentIndex = 0
    \/ /\ carouselLast.op = "scroll"
       /\ roundedIndex(carouselLast.arg) \notin 0..(dataLength - 1)

(***************************************************************************)
(* The ToastQueue.                                                         *)
(***************************************************************************)
\* C26: the toasts handed to the show function, followed by those still
\* queued, are the toasts added, in the order they were added; no toast is
\* handed over twice; and nothing is handed over while no show function is
\* registered.
C26_QueueIsFirstInFirstOut ==
    /\ queueShown \o queue = queueAdded
    /\ \A i, j \in 1..Len(queueShown) :
           queueShown[i].id = queueShown[j].id => i = j
    /\ showToastFn = NoFn => queueShown = <<>>

\* C26 witness: toasts waited for the show function, and two of them have
\* been handed over while a third is still queued.
C26_Witness ==
    /\ Len(queueShown) >= 2
    /\ Len(queue) >= 1

\* C27: once a show function is registered, the queue is empty whenever
\* setShowToast or add has returned.
C27_QueueDrainsOnceRegistered ==
    showToastFn # NoFn => queue = <<>>

(***************************************************************************)
(* The ToastProvider.                                                      *)
(***************************************************************************)
\* s without its i-th element.
RemoveAt(s, i) == SubSeq(s, 1, i - 1) \o SubSeq(s, i + 1, Len(s))

\* C28: dismissing one toast removes that toast and no other, and the
\* toasts that remain keep their order, also when toasts were shown within
\* the same millisecond.
C28_DismissRemovesExactlyOne ==
    [][providerLast'.op = "dismiss"
       => \E i \in 1..Len(toasts) :
              /\ toasts[i].serial = providerLast'.arg
              /\ toasts' = RemoveAt(toasts, i)]_vars

(***************************************************************************)
(* The Tabs.                                                               *)
(***************************************************************************)
\* The tab with this id is there and enabled.
TabEnabled(id) ==
    \E i \in 1..Len(items) : items[i].id = id /\ ~items[i].disabled

\* The tab with this id is there and disabled.
TabDisabled(id) ==
    \E i \in 1..Len(items) : items[i].id = id /\ items[i].disabled

\* C30: a press on a disabled tab leaves the active tab as it was and calls
\* onTabChange not at all; a press on an enabled tab makes it the active tab
\* and calls onTabChange once, with its id; and if the tab active at first is
\* enabled, the active tab is an enabled tab ever after.
C30_DisabledTabsAreNeverActivated ==
    /\ [][tabsLast'.op = "press"
          => IF TabDisabled(tabsLast'.arg)
             THEN activeTab' = activeTab /\ tabCalls' = <<>>
             ELSE activeTab' = tabsLast'.arg /\ tabCalls' = <<tabsLast'.arg>>]_vars
    /\ [][TabEnabled(activeTab) => TabEnabled(activeTab')]_vars

\* C30 witness: a disabled tab was pressed while an enabled tab, not the
\* first one, was active.
C30_Witness ==
    /\ tabsLast.op = "press"
    /\ TabDisabled(tabsLast.arg)
    /\ TabEnabled(activeTab)
    /\ activeTab # initialTab
    /\ activeTab # items[1].id

====
